---- MODULE Spec2Model ----
(***************************************************************************)
(* dognap: extracts the cookies of a list of hosts from Firefox's          *)
(* cookies.sqlite and writes them in the Netscape cookie-file format, to   *)
(* standard output or to a file (src/main.rs).                             *)
(*                                                                         *)
(* Strings are sequences of one-character strings, so that formatting,     *)
(* splitting on tabs and splitting into lines are computed on characters.  *)
(***************************************************************************)
EXTENDS Integers, Sequences, FiniteSets, TLC

VARIABLES
    pc,        \* where the process is: main, run and the output functions
    opts,      \* Opts: hosts (Vec<String>) and output (Option<String>)
    env,       \* the user's environment: data_dir, home_dir, the two profile roots
    store,     \* the rows of moz_cookies in the cookie store, in storage order
    dbPath,    \* db_path of run
    conn,      \* whether run holds an open Connection
    query,     \* the text of the query run prepared
    cookies,   \* cookies of run: the Result<Vec<MozCookie>, _> collected
    idx,       \* position of the for loop over cookies (next record to write)
    file,      \* the file named by --output: whether it exists, and its bytes
    file0,     \* the file as it was when the process started
    stdout,    \* the bytes this process wrote to standard output
    captured,  \* standard output of the last stdout run that succeeded
    stderr,    \* the messages this process wrote to standard error
    exitCode,  \* the process exit code, NotExited while it runs
    err,       \* the stage whose call made run return Err ("" while none)
    done,      \* the stages run has entered
    searched,  \* the profile roots get_db_path has walked, in order
    len,       \* build_formatter's argument (formatter specification)
    buf        \* build_formatter's result   (formatter specification)

vars == <<pc, opts, env, store, dbPath, conn, query, cookies, idx, file, file0,
          stdout, captured, stderr, exitCode, err, done, searched, len, buf>>

(***************************************************************************)
(* Bounds of the model.                                                    *)
(***************************************************************************)
MaxHosts == 2
MaxRows == 2
MaxPartial == 2
MaxEntries == 4
MaxPlaceholders == 100

(***************************************************************************)
(* Characters and strings.                                                 *)
(***************************************************************************)
TAB == "\t"
LF == "\n"

Min(a, b) == IF a < b THEN a ELSE b

Prefix(s, k) == SubSeq(s, 1, k)

IsPrefix(p, s) == Len(p) <= Len(s) /\ SubSeq(s, 1, Len(p)) = p

RECURSIVE Concat(_)
Concat(ss) == IF ss = <<>> THEN <<>> ELSE Head(ss) \o Concat(Tail(ss))

Range(s) == {s[i] : i \in 1..Len(s)}

SeqsUpTo(S, n) == UNION {[1..k -> S] : k \in 0..n}

(***************************************************************************)
(* COOKIE_FILE_HEADER: four lines joined by line feeds, no final one.      *)
(***************************************************************************)
HeaderLine1 ==
    <<"#"," ","N","e","t","s","c","a","p","e"," ","H","T","T","P"," ","C","o","o","k","i","e",
      " ","F","i","l","e">>
HeaderLine2 ==
    <<"#"," ","h","t","t","p",":","/","/","c","u","r","l",".","h","a","x","x",".","s","e","/",
      "r","f","c","/","c","o","o","k","i","e","_","s","p","e","c",".","h","t","m","l">>
HeaderLine3 ==
    <<"#"," ","T","h","i","s"," ","i","s"," ","a"," ","g","e","n","e","r","a","t","e","d"," ",
      "f","i","l","e","!"," "," ","D","o"," ","n","o","t"," ","e","d","i","t",".">>
HeaderLine4 ==
    <<"#"," ","A","L","L"," ","S","P","A","C","E","S"," ","M","U","S","T"," ","B","E"," ","T",
      "A","B","S","!"," ","-"," ","I","T"," ","W","I","L","L"," ","T","H","R","O","W"," ","A",
      "N"," ","E","R","R","O","R","!">>

COOKIE_FILE_HEADER ==
    HeaderLine1 \o <<LF>> \o HeaderLine2 \o <<LF>> \o HeaderLine3 \o <<LF>> \o HeaderLine4

(***************************************************************************)
(* MozCookie and its Display: "{}\tTRUE\t{}\tFALSE\t{}\t{}\t{}".           *)
(***************************************************************************)
DigitChar(d) == <<"0", "1", "2", "3", "4", "5", "6", "7", "8", "9">>[d + 1]

RECURSIVE Digits(_)
Digits(n) == IF n < 10 THEN <<DigitChar(n)>> ELSE Digits(n \div 10) \o <<DigitChar(n % 10)>>

\* Display of an i64: decimal digits, a leading "-" when negative.
FmtI64(n) == IF n < 0 THEN <<"-">> \o Digits(0 - n) ELSE Digits(n)

StrTRUE == <<"T", "R", "U", "E">>
StrFALSE == <<"F", "A", "L", "S", "E">>

MozCookie(host, path, expiry, name, value) ==
    [host |-> host, path |-> path, expiry |-> expiry, name |-> name, value |-> value]

MozCookieFmt(c) ==
    c.host \o <<TAB>> \o StrTRUE \o <<TAB>> \o c.path \o <<TAB>> \o StrFALSE \o <<TAB>>
        \o FmtI64(c.expiry) \o <<TAB>> \o c.name \o <<TAB>> \o c.value

(***************************************************************************)
(* build_formatter: the placeholder list of the IN (...) clause.           *)
(***************************************************************************)
\* buf after k times buf.push_str(s)
PushTimes(b, s, k) == b \o [i \in 1..(k * Len(s)) |-> s[((i - 1) % Len(s)) + 1]]

\* Variant: the loop runs n times instead of n - 1.
build_formatter_OffByOne(n) ==
    IF n = 0 THEN <<>>
    ELSE IF n = 1 THEN <<"?">>
    ELSE PushTimes(<<"?">>, <<",", "?">>, n)

build_formatter(n) ==
    IF n = 0 THEN <<>>
    ELSE IF n = 1 THEN <<"?">>
    ELSE PushTimes(<<"?">>, <<",", "?">>, n - 1)

QueryHead ==
    <<"s","e","l","e","c","t"," ","n","a","m","e",","," ","v","a","l","u","e",","," ",
      "h","o","s","t",","," ","p","a","t","h",","," ","e","x","p","i","r","y"," ",
      "f","r","o","m"," ","m","o","z","_","c","o","o","k","i","e","s"," ",
      "w","h","e","r","e"," ","h","o","s","t"," ","i","n"," ","(">>

\* format!("select ... where host in ({})", hosts_formatter)
BuildQuery(n) == QueryHead \o build_formatter(n) \o <<")">>

\* The number of positional parameters SQLite finds in a statement.
CountParams(q) == Cardinality({i \in 1..Len(q) : q[i] = "?"})

(***************************************************************************)
(* The file system under the two profile roots.  An entry is a file or a   *)
(* directory with its entries in enumeration order; siblings have distinct *)
(* names.                                                                  *)
(***************************************************************************)
Target == "cookies.sqlite"
Names == {Target, "x.default"}

FileEntry(n) == [name |-> n, isDir |-> FALSE, kids |-> <<>>]
DirEntry(n, k) == [name |-> n, isDir |-> TRUE, kids |-> k]

\* Trees(n): the entries with n entries in all (itself included);
\* Forests(n): the directory listings with n entries in all.
RECURSIVE Trees(_), Forests(_)
Trees(n) ==
    IF n = 0 THEN {}
    ELSE (IF n = 1 THEN {FileEntry(nm) : nm \in Names} ELSE {})
         \cup {DirEntry(nm, f) : nm \in Names, f \in Forests(n - 1)}

Forests(n) ==
    IF n = 0 THEN {<<>>}
    ELSE UNION {LET rest == Forests(n - k)
                IN  UNION {{<<t>> \o f : f \in {g \in rest :
                                                  \A i \in 1..Len(g) : g[i].name # t.name}} :
                           t \in Trees(k)} :
                k \in 1..n}

NoRoot == [exists |-> FALSE, kids |-> <<>>]
Root(f) == [exists |-> TRUE, kids |-> f]

RootsOfSize(n) == {Root(f) : f \in Forests(n)} \cup (IF n = 0 THEN {NoRoot} ELSE {})

\* The environments whose roots hold i and j entries.  dataDir / homeDir:
\* whether dirs::data_dir() / dirs::home_dir() is Some.
EnvsOfSize(i, j) ==
    [dataDir : BOOLEAN, homeDir : BOOLEAN, root1 : RootsOfSize(i), root2 : RootsOfSize(j)]

(***************************************************************************)
(* search and get_db_path.  A PathBuf is the root it lies under and the    *)
(* child positions leading to the entry; NonePath is Option::None.         *)
(***************************************************************************)
NonePath == [some |-> FALSE, root |-> "", path |-> <<>>]
SomePath(r, p) == [some |-> TRUE, root |-> r, path |-> p]

DirEnt(p, n) == [path |-> p, name |-> n]

\* WalkDir with contents_first(true): a directory's contents, then the directory.
RECURSIVE WalkEntry(_, _), WalkList(_, _, _)
WalkEntry(e, p) ==
    IF e.isDir THEN WalkList(e.kids, p, 1) \o <<DirEnt(p, e.name)>> ELSE <<DirEnt(p, e.name)>>

WalkList(kids, p, i) ==
    IF i > Len(kids) THEN <<>>
    ELSE WalkEntry(kids[i], p \o <<i>>) \o WalkList(kids, p, i + 1)

\* Variant: contents_first(false), walkdir's default: the directory, then its
\* contents.
RECURSIVE WalkEntryPre(_, _), WalkListPre(_, _, _)
WalkEntryPre(e, p) ==
    IF e.isDir THEN <<DirEnt(p, e.name)>> \o WalkListPre(e.kids, p, 1) ELSE <<DirEnt(p, e.name)>>

WalkListPre(kids, p, i) ==
    IF i > Len(kids) THEN <<>>
    ELSE WalkEntryPre(kids[i], p \o <<i>>) \o WalkListPre(kids, p, i + 1)

\* The entries the walker yields for a root: nothing but an error (which the
\* filter drops) when the root does not exist; the root itself comes last.
WalkDir_DirsFirst(root, rootName) ==
    IF ~root.exists THEN <<>>
    ELSE <<DirEnt(<<>>, rootName)>> \o WalkListPre(root.kids, <<>>, 1)

WalkDir(root, rootName) ==
    IF ~root.exists THEN <<>>
    ELSE WalkList(root.kids, <<>>, 1) \o <<DirEnt(<<>>, rootName)>>

\* walker.next() after filter_map: the first entry whose file name is target.
search(which, root, rootName, target) ==
    LET hits == SelectSeq(WalkDir(root, rootName), LAMBDA e : e.name = target)
    IN  IF hits = <<>> THEN NonePath ELSE SomePath(which, hits[1].path)

(***************************************************************************)
(* The cookie store: rows of moz_cookies.  The text columns hold strings;  *)
(* expiry holds a value of any SQLite type.                                *)
(***************************************************************************)
SqlInteger(n) == [t |-> "integer", v |-> n]
SqlNull == [t |-> "null", v |-> 0]

StoreRow(host, path, expiry, name, value) ==
    [host |-> host, path |-> path, expiry |-> expiry, name |-> name, value |-> value]

\* where host in (?, ?, ...) with the hosts bound positionally.
SelectRows(rows, hosts) == SelectSeq(rows, LAMBDA r : r.host \in Range(hosts))

\* The closure of query_map: row.get::<_, i64>("expiry") fails on a value
\* that is not an integer.
RowOk(r) == r.expiry.t = "integer"
MapRow(r) == MozCookie(r.host, r.path, r.expiry.v, r.name, r.value)

OkVec(v) == [ok |-> TRUE, vec |-> v]
ErrVec == [ok |-> FALSE, vec |-> <<>>]

\* collect::<Result<Vec<_>, _>>(): the first Err ends the collection.
RECURSIVE MapAll(_)
MapAll(rows) == IF rows = <<>> THEN <<>> ELSE <<MapRow(Head(rows))>> \o MapAll(Tail(rows))

\* Variant: rows that fail to decode are dropped (filter_map instead of collect
\* into Result).
Collect_SkipBad(rows) == OkVec(MapAll(SelectSeq(rows, RowOk)))

Collect(rows) == IF \A i \in 1..Len(rows) : RowOk(rows[i]) THEN OkVec(MapAll(rows)) ELSE ErrVec

(***************************************************************************)
(* Writing.  writeln! on a File or on the stdout lock either writes the    *)
(* whole text, or fails after some first bytes of it reached the sink.     *)
(***************************************************************************)
WriteOutcomes(chunk) ==
    {[ok |-> TRUE, bytes |-> chunk]}
      \cup {[ok |-> FALSE, bytes |-> Prefix(chunk, k)] :
              k \in 0..Min(MaxPartial, Len(chunk) - 1)}

\* Variant: the file is opened for writing without truncation, at its end.
FileCreate_NoTruncate(f) == [exists |-> TRUE, data |-> f.data]

\* File::create: the file exists afterwards and is empty.
FileCreate(f) == [exists |-> TRUE, data |-> <<>>]

\* Variant: writeln!(file, "{}", COOKIE_FILE_HEADER), no blank line.
SaveHeaderChunk_NoBlank == COOKIE_FILE_HEADER \o <<LF>>

\* writeln!(file, "{}\n", COOKIE_FILE_HEADER)
SaveHeaderChunk == COOKIE_FILE_HEADER \o <<LF>> \o <<LF>>

\* writeln!(file, "{}", cookie.fmt())
SaveLineChunk(c) == MozCookieFmt(c) \o <<LF>>

\* writeln!(lock, "{}\n", COOKIE_FILE_HEADER)
StdoutHeaderChunk == COOKIE_FILE_HEADER \o <<LF>> \o <<LF>>

\* writeln!(lock, "{}", cookie.fmt())
StdoutLineChunk(c) == MozCookieFmt(c) \o <<LF>>

\* Variant: the loop runs over the records from the last to the first.
CookieAt_Reversed(v, i) == v[Len(v) + 1 - i]

\* for cookie in cookies: the record the loop handles at position i.
CookieAt(v, i) == v[i]

(***************************************************************************)
(* Inputs of the pipeline specification.                                   *)
(***************************************************************************)
HostA == <<"a", ".", "c", "o", "m">>
HostB == <<"b", ".", "c", "o", "m">>
HostC == <<"c", ".", "c", "o", "m">>

HostArgs == {HostA, HostC}

RowA == StoreRow(HostA, <<"/">>, SqlInteger(0), <<"s">>, <<>>)
RowB == StoreRow(HostB, <<"/">>, SqlInteger(15), <<"s">>, <<"v">>)
RowC == StoreRow(HostC, <<"/", "p">>, SqlInteger(0 - 2), <<"k">>, <<"x", TAB, "y">>)
RowTabPath == StoreRow(HostC, <<"/", TAB, "q">>, SqlInteger(7), <<"k">>, <<"v">>)
RowBad == StoreRow(HostA, <<"/">>, SqlNull, <<"t">>, <<"w">>)

RowPool == {RowA, RowB, RowC, RowTabPath, RowBad}

NoneOut == [some |-> FALSE]
SomeOut == [some |-> TRUE]

AbsentFile == [exists |-> FALSE, data |-> <<>>]
OldFile == [exists |-> TRUE, data |-> <<"o", "l", "d", LF>>]

NoCapture == [some |-> FALSE, data |-> <<>>]

Profile(k) == Root(<<DirEntry("x.default", k)>>)

EnvNoDataDir ==
    [dataDir |-> FALSE, homeDir |-> TRUE, root1 |-> NoRoot,
     root2 |-> Profile(<<FileEntry(Target)>>)]
EnvNoStore ==
    [dataDir |-> TRUE, homeDir |-> TRUE, root1 |-> NoRoot, root2 |-> Profile(<<>>)]
EnvFound ==
    [dataDir |-> TRUE, homeDir |-> TRUE, root1 |-> NoRoot,
     root2 |-> Profile(<<FileEntry(Target)>>)]

MainEnvs == {EnvNoDataDir, EnvNoStore, EnvFound}

NotExited == 0 - 1

Stages == <<"locate", "open", "prepare", "query", "output">>

(***************************************************************************)
(* The state a process starts in.                                          *)
(***************************************************************************)
Fresh ==
    /\ dbPath = NonePath
    /\ conn = FALSE
    /\ query = <<>>
    /\ cookies = ErrVec
    /\ idx = 0
    /\ stdout = <<>>
    /\ stderr = <<>>
    /\ exitCode = NotExited
    /\ err = ""
    /\ done = {}
    /\ searched = <<>>

Init ==
    /\ pc = "main"
    /\ opts \in [hosts : SeqsUpTo(HostArgs, MaxHosts), output : {NoneOut, SomeOut}]
    /\ env \in MainEnvs
    /\ store \in SeqsUpTo(RowPool, MaxRows)
    /\ file0 \in {AbsentFile, OldFile}
    /\ file = file0
    /\ captured = NoCapture
    /\ Fresh
    /\ len = 0
    /\ buf = <<>>

(***************************************************************************)
(* main and run.                                                           *)
(***************************************************************************)
Fail(stage) ==
    /\ err' = stage
    /\ pc' = "ret_err"

\* main: let opts = Opts::parse(); run(&opts)
Main_Call ==
    /\ pc = "main"
    /\ pc' = "run"
    /\ UNCHANGED <<opts, env, store, dbPath, conn, query, cookies, idx, file, file0,
                   stdout, captured, stderr, exitCode, err, done, searched, len, buf>>

\* Variant: run without the early return for an empty host list.
Run_CheckHosts_NoShortCircuit ==
    /\ pc = "run"
    /\ pc' = "locate"
    /\ UNCHANGED <<opts, env, store, dbPath, conn, query, cookies, idx, file, file0,
                   stdout, captured, stderr, exitCode, err, done, searched, len, buf>>

\* if opts.hosts.is_empty() { return Ok(()); }
Run_CheckHosts ==
    /\ pc = "run"
    /\ pc' = IF Len(opts.hosts) = 0 THEN "ret_ok" ELSE "locate"
    /\ UNCHANGED <<opts, env, store, dbPath, conn, query, cookies, idx, file, file0,
                   stdout, captured, stderr, exitCode, err, done, searched, len, buf>>

\* let db_path = get_db_path()...: the call.
Run_Locate ==
    /\ pc = "locate"
    /\ done' = done \cup {"locate"}
    /\ pc' = "loc_data_dir"
    /\ UNCHANGED <<opts, env, store, dbPath, conn, query, cookies, idx, file, file0,
                   stdout, captured, stderr, exitCode, err, searched, len, buf>>

\* get_db_path: let path = dirs::data_dir()?.join("Mozilla\\Firefox\\Profiles");
Loc_DataDir ==
    /\ pc = "loc_data_dir"
    /\ IF ~env.dataDir
       THEN dbPath' = NonePath /\ pc' = "loc_ret"
       ELSE dbPath' = dbPath /\ pc' = "loc_first"
    /\ UNCHANGED <<opts, env, store, conn, query, cookies, idx, file, file0,
                   stdout, captured, stderr, exitCode, err, done, searched, len, buf>>

\* get_db_path: match search(&path, target) { None => ..., path => path }
Loc_SearchFirst ==
    /\ pc = "loc_first"
    /\ searched' = Append(searched, "data")
    /\ LET first == search("data", env.root1, "Profiles", Target)
       IN  IF first.some
           THEN dbPath' = first /\ pc' = "loc_ret"
           ELSE dbPath' = dbPath /\ pc' = "loc_home"
    /\ UNCHANGED <<opts, env, store, conn, query, cookies, idx, file, file0,
                   stdout, captured, stderr, exitCode, err, done, len, buf>>

\* get_db_path: None => { let path = dirs::home_dir()?.join(".mozilla/firefox");
\*                        search(&path, target) }
Loc_SearchSecond ==
    /\ pc = "loc_home"
    /\ IF ~env.homeDir
       THEN dbPath' = NonePath /\ searched' = searched
       ELSE /\ searched' = Append(searched, "home")
            /\ dbPath' = search("home", env.root2, "firefox", Target)
    /\ pc' = "loc_ret"
    /\ UNCHANGED <<opts, env, store, conn, query, cookies, idx, file, file0,
                   stdout, captured, stderr, exitCode, err, done, len, buf>>

\* ....ok_or_else(|| io::Error::new(NotFound, "cookie db not found"))?;
Run_Located ==
    /\ pc = "loc_ret"
    /\ IF dbPath.some THEN pc' = "open" /\ err' = err ELSE Fail("locate")
    /\ UNCHANGED <<opts, env, store, dbPath, conn, query, cookies, idx, file, file0,
                   stdout, captured, stderr, exitCode, done, searched, len, buf>>

\* Variant: a failed open is recorded but run goes on to prepare the query.
Run_Open_IgnoreError ==
    /\ pc = "open"
    /\ done' = done \cup {"open"}
    /\ \E ok \in BOOLEAN :
         IF ok THEN conn' = TRUE /\ pc' = "prepare" /\ err' = err
         ELSE conn' = conn /\ pc' = "prepare" /\ err' = "open"
    /\ UNCHANGED <<opts, env, store, dbPath, query, cookies, idx, file, file0,
                   stdout, captured, stderr, exitCode, searched, len, buf>>

\* let connection = Connection::open(&db_path)?;
Run_Open ==
    /\ pc = "open"
    /\ done' = done \cup {"open"}
    /\ \E ok \in BOOLEAN :
         IF ok THEN conn' = TRUE /\ pc' = "prepare" /\ err' = err
         ELSE conn' = conn /\ Fail("open")
    /\ UNCHANGED <<opts, env, store, dbPath, query, cookies, idx, file, file0,
                   stdout, captured, stderr, exitCode, searched, len, buf>>

\* build_formatter, format!, connection.prepare(&query)?  (fails when the
\* store has no moz_cookies table with these columns)
Run_Prepare ==
    /\ pc = "prepare"
    /\ done' = done \cup {"prepare"}
    /\ query' = BuildQuery(Len(opts.hosts))
    /\ \E ok \in BOOLEAN :
         IF ok THEN pc' = "query" /\ err' = err ELSE Fail("prepare")
    /\ UNCHANGED <<opts, env, store, dbPath, conn, cookies, idx, file, file0,
                   stdout, captured, stderr, exitCode, searched, len, buf>>

\* s.query_map(params_from_iter(&opts.hosts), |row| ...)?.collect():
\* binding fails when the statement's parameter count is not the number of
\* hosts; stepping the statement may fail on any row, which collect records
\* in cookies as the decode failures.
Run_Query ==
    /\ pc = "query"
    /\ done' = done \cup {"query"}
    /\ IF CountParams(query) # Len(opts.hosts)
       THEN cookies' = cookies /\ Fail("query")
       ELSE /\ \E stepOk \in BOOLEAN :
                 cookies' = IF stepOk THEN Collect(SelectRows(store, opts.hosts)) ELSE ErrVec
            /\ pc' = "dest"
            /\ err' = err
    /\ UNCHANGED <<opts, env, store, dbPath, conn, query, idx, file, file0,
                   stdout, captured, stderr, exitCode, searched, len, buf>>

\* if let Some(path) = &opts.output { save_to_path(path, &cookies?)? }
\* else { format_stdout(&cookies?)? }: cookies? returns before the call.
Run_Dest ==
    /\ pc = "dest"
    /\ IF ~cookies.ok
       THEN Fail("rows") /\ done' = done
       ELSE /\ pc' = IF opts.output.some THEN "save_create" ELSE "stdout_header"
            /\ done' = done \cup {"output"}
            /\ err' = err
    /\ UNCHANGED <<opts, env, store, dbPath, conn, query, cookies, idx, file, file0,
                   stdout, captured, stderr, exitCode, searched, len, buf>>

(***************************************************************************)
(* save_to_path.                                                           *)
(***************************************************************************)
\* let mut file = File::create(path)?;
Save_Create ==
    /\ pc = "save_create"
    /\ \E ok \in BOOLEAN :
         IF ok THEN file' = FileCreate(file) /\ pc' = "save_header" /\ err' = err
         ELSE file' = file /\ Fail("create")
    /\ UNCHANGED <<opts, env, store, dbPath, conn, query, cookies, idx, file0,
                   stdout, captured, stderr, exitCode, done, searched, len, buf>>

\* writeln!(file, "{}\n", COOKIE_FILE_HEADER)?;
Save_Header ==
    /\ pc = "save_header"
    /\ \E w \in WriteOutcomes(SaveHeaderChunk) :
         /\ file' = [file EXCEPT !.data = @ \o w.bytes]
         /\ IF w.ok THEN pc' = "save_loop" /\ idx' = 1 /\ err' = err
            ELSE Fail("write") /\ idx' = idx
    /\ UNCHANGED <<opts, env, store, dbPath, conn, query, cookies, file0,
                   stdout, captured, stderr, exitCode, done, searched, len, buf>>

\* for cookie in cookies { writeln!(file, "{}", cookie.fmt())?; }  Ok(())
Save_Loop ==
    /\ pc = "save_loop"
    /\ IF idx > Len(cookies.vec)
       THEN pc' = "ret_ok" /\ UNCHANGED <<file, idx, err>>
       ELSE \E w \in WriteOutcomes(SaveLineChunk(CookieAt(cookies.vec, idx))) :
              /\ file' = [file EXCEPT !.data = @ \o w.bytes]
              /\ IF w.ok THEN pc' = pc /\ idx' = idx + 1 /\ err' = err
                 ELSE Fail("write") /\ idx' = idx
    /\ UNCHANGED <<opts, env, store, dbPath, conn, query, cookies, file0,
                   stdout, captured, stderr, exitCode, done, searched, len, buf>>

(***************************************************************************)
(* format_stdout.                                                          *)
(***************************************************************************)
\* writeln!(lock, "{}\n", COOKIE_FILE_HEADER)?;
Stdout_Header ==
    /\ pc = "stdout_header"
    /\ \E w \in WriteOutcomes(StdoutHeaderChunk) :
         /\ stdout' = stdout \o w.bytes
         /\ IF w.ok THEN pc' = "stdout_loop" /\ idx' = 1 /\ err' = err
            ELSE Fail("write") /\ idx' = idx
    /\ UNCHANGED <<opts, env, store, dbPath, conn, query, cookies, file, file0,
                   captured, stderr, exitCode, done, searched, len, buf>>

\* for cookie in cookies { writeln!(lock, "{}", cookie.fmt())?; }  Ok(())
Stdout_Loop ==
    /\ pc = "stdout_loop"
    /\ IF idx > Len(cookies.vec)
       THEN pc' = "ret_ok" /\ UNCHANGED <<stdout, idx, err>>
       ELSE \E w \in WriteOutcomes(StdoutLineChunk(CookieAt(cookies.vec, idx))) :
              /\ stdout' = stdout \o w.bytes
              /\ IF w.ok THEN pc' = pc /\ idx' = idx + 1 /\ err' = err
                 ELSE Fail("write") /\ idx' = idx
    /\ UNCHANGED <<opts, env, store, dbPath, conn, query, cookies, file, file0,
                   captured, stderr, exitCode, done, searched, len, buf>>

(***************************************************************************)
(* The end of main, and the next invocation.                               *)
(***************************************************************************)
\* The line eprintln! prints for an error of each stage.
ErrMsg(stage) == <<"error", stage>>

\* if let Err(e) = run(&opts) { eprintln!("{}", e); std::process::exit(1); }
Main_ExitErr ==
    /\ pc = "ret_err"
    /\ stderr' = Append(stderr, ErrMsg(err))
    /\ exitCode' = 1
    /\ pc' = "exited"
    /\ UNCHANGED <<opts, env, store, dbPath, conn, query, cookies, idx, file, file0,
                   stdout, captured, err, done, searched, len, buf>>

\* run returned Ok(()): main returns, the process ends with code 0.
Main_ExitOk ==
    /\ pc = "ret_ok"
    /\ exitCode' = 0
    /\ pc' = "exited"
    /\ UNCHANGED <<opts, env, store, dbPath, conn, query, cookies, idx, file, file0,
                   stdout, captured, stderr, err, done, searched, len, buf>>

\* The program is started again after a successful run, with the same hosts
\* on the same store and any output option.  The standard output of a run
\* that wrote there is kept for comparison; the output file stays on disk.
Restart ==
    /\ pc = "exited"
    /\ exitCode = 0
    /\ \E o \in {NoneOut, SomeOut} : opts' = [opts EXCEPT !.output = o]
    /\ captured' = IF ~opts.output.some /\ "output" \in done
                   THEN [some |-> TRUE, data |-> stdout] ELSE captured
    /\ file0' = file
    /\ pc' = "main"
    /\ dbPath' = NonePath
    /\ conn' = FALSE
    /\ query' = <<>>
    /\ cookies' = ErrVec
    /\ idx' = 0
    /\ stdout' = <<>>
    /\ stderr' = <<>>
    /\ exitCode' = NotExited
    /\ err' = ""
    /\ done' = {}
    /\ searched' = <<>>
    /\ UNCHANGED <<env, store, file, len, buf>>

Next ==
    \/ Main_Call
    \/ Run_CheckHosts
    \/ Run_Locate
    \/ Loc_DataDir
    \/ Loc_SearchFirst
    \/ Loc_SearchSecond
    \/ Run_Located
    \/ Run_Open
    \/ Run_Prepare
    \/ Run_Query
    \/ Run_Dest
    \/ Save_Create
    \/ Save_Header
    \/ Save_Loop
    \/ Stdout_Header
    \/ Stdout_Loop
    \/ Main_ExitErr
    \/ Main_ExitOk
    \/ Restart

Spec == Init /\ [][Next]_vars

(***************************************************************************)
(* build_formatter on its own: every length up to MaxPlaceholders.         *)
(***************************************************************************)
Idle ==
    /\ opts = [hosts |-> <<>>, output |-> NoneOut]
    /\ store = <<>>
    /\ file0 = AbsentFile
    /\ file = AbsentFile
    /\ captured = NoCapture
    /\ Fresh

InitFormatter ==
    /\ pc = "build_formatter"
    /\ len \in 0..MaxPlaceholders
    /\ buf = <<>>
    /\ env = EnvNoDataDir
    /\ Idle

Call_build_formatter ==
    /\ pc = "build_formatter"
    /\ buf' = build_formatter(len)
    /\ pc' = "built"
    /\ UNCHANGED <<opts, env, store, dbPath, conn, query, cookies, idx, file, file0,
                   stdout, captured, stderr, exitCode, err, done, searched, len>>

NextFormatter == Call_build_formatter

SpecFormatter == InitFormatter /\ [][NextFormatter]_vars

(***************************************************************************)
(* get_db_path on its own: every file system of up to MaxEntries entries.  *)
(***************************************************************************)
InitLocator ==
    /\ pc = "loc_data_dir"
    /\ \E i, j \in 0..MaxEntries : i + j <= MaxEntries /\ env \in EnvsOfSize(i, j)
    /\ len = 0
    /\ buf = <<>>
    /\ Idle

NextLocator ==
    \/ Loc_DataDir
    \/ Loc_SearchFirst
    \/ Loc_SearchSecond

SpecLocator == InitLocator /\ [][NextLocator]_vars

(***************************************************************************)
(* Vocabulary of the properties.                                           *)
(***************************************************************************)
\* s split at every occurrence of sep (n occurrences give n + 1 fields).
RECURSIVE SplitOn(_, _)
SplitOn(s, sep) ==
    IF \A i \in 1..Len(s) : s[i] # sep THEN <<s>>
    ELSE LET k == CHOOSE i \in 1..Len(s) : s[i] = sep /\ \A j \in 1..(i - 1) : s[j] # sep
         IN  <<SubSeq(s, 1, k - 1)>> \o SplitOn(SubSeq(s, k + 1, Len(s)), sep)

\* What the process has written to the destination opts.output selects.
Written == IF opts.output.some THEN file.data ELSE stdout

\* The process ended with code 0 after running the output stage.
ExitedOkWithOutput == pc = "exited" /\ exitCode = 0 /\ "output" \in done

\* The rows of the store whose host is one of the hosts asked for.
MatchingRows ==
    SelectSeq(store, LAMBDA r : \E i \in 1..Len(opts.hosts) : opts.hosts[i] = r.host)

\* The lines of a complete output after the header and its blank line.
DataLines(w) == LET L == SplitOn(w, LF) IN SubSeq(L, 6, Len(L) - 1)

\* The complete output for the records in cookies.
FullOutput ==
    COOKIE_FILE_HEADER \o <<LF, LF>>
      \o Concat([i \in 1..Len(cookies.vec) |-> MozCookieFmt(cookies.vec[i]) \o <<LF>>])

\* The complete output for the first n records in cookies.
OutputUpTo(n) ==
    COOKIE_FILE_HEADER \o <<LF, LF>>
      \o Concat([i \in 1..n |-> MozCookieFmt(cookies.vec[i]) \o <<LF>>])

(***************************************************************************)
(* C1.  With an empty host list the run does nothing and succeeds: no      *)
(* discovery (get_db_path is never entered, no root is walked), no store   *)
(* opened, no query, nothing on standard output or standard error, the     *)
(* --output file left exactly as it was (neither created nor truncated),   *)
(* and the process ends with code 0.                                       *)
(***************************************************************************)
C1_EmptyHostsNoWork ==
    Len(opts.hosts) = 0 =>
        /\ pc \in {"main", "run", "ret_ok", "exited"}
        /\ done = {}
        /\ searched = <<>>
        /\ ~dbPath.some
        /\ ~conn
        /\ query = <<>>
        /\ stdout = <<>>
        /\ stderr = <<>>
        /\ file = file0
        /\ (pc = "exited" => exitCode = 0)

C1_Witness ==
    /\ Len(opts.hosts) = 0
    /\ pc = "exited"
    /\ opts.output.some
    /\ ~file.exists
    /\ env = EnvFound

(***************************************************************************)
(* C2.  After a successful run for a non-empty host list, the data lines   *)
(* of the output are, in storage order, one line for each row of           *)
(* moz_cookies whose host is in the host list and for no other row; each   *)
(* line, split on tabs, starts with the row's host and carries TRUE in     *)
(* field 2, the row's path in field 3, FALSE in field 4, the expiry in     *)
(* decimal in field 5 and the name in field 6.                             *)
(***************************************************************************)
C2_ExactlyMatchingRows ==
    ExitedOkWithOutput =>
        LET lines == DataLines(Written)
        IN  /\ Len(lines) = Len(MatchingRows)
            /\ \A i \in 1..Len(MatchingRows) :
                 LET f == SplitOn(lines[i], TAB)
                     r == MatchingRows[i]
                 IN  /\ Len(f) >= 7
                     /\ f[1] = r.host
                     /\ f[2] = StrTRUE
                     /\ f[3] = r.path
                     /\ f[4] = StrFALSE
                     /\ f[5] = FmtI64(r.expiry.v)
                     /\ f[6] = r.name

\* The part of C2 that does not depend on where the tabs fall: the records
\* handed to the output stage are the matching rows, in storage order, and a
\* successful run writes one line per matching row.
RecordsAreMatchingRows ==
    /\ "output" \in done =>
         /\ Len(cookies.vec) = Len(MatchingRows)
         /\ \A i \in 1..Len(MatchingRows) :
              /\ cookies.vec[i].host = MatchingRows[i].host
              /\ cookies.vec[i].path = MatchingRows[i].path
              /\ cookies.vec[i].expiry = MatchingRows[i].expiry.v
              /\ cookies.vec[i].name = MatchingRows[i].name
              /\ cookies.vec[i].value = MatchingRows[i].value
    /\ ExitedOkWithOutput => Len(DataLines(Written)) = Len(MatchingRows)

(***************************************************************************)
(* C3.  build_formatter(n) is the empty string for n = 0, "?" for n = 1,   *)
(* and for every n >= 1 exactly n "?" separated by n - 1 commas with no    *)
(* leading or trailing comma and no other character, so the query built    *)
(* from it has as many parameters as there are hosts to bind.              *)
(***************************************************************************)
C3_PlaceholderList ==
    pc = "built" =>
        /\ (len = 0 => buf = <<>>)
        /\ (len = 1 => buf = <<"?">>)
        /\ (len >= 1 =>
              /\ Len(buf) = 2 * len - 1
              /\ \A i \in 1..Len(buf) : buf[i] = (IF i % 2 = 1 THEN "?" ELSE ",")
              /\ Cardinality({i \in 1..Len(buf) : buf[i] = ","}) = len - 1)
        /\ Cardinality({i \in 1..Len(buf) : buf[i] = "?"}) = len
        /\ CountParams(QueryHead \o buf \o <<")">>) = len

C3_Witness == pc = "built" /\ len = 5 /\ Len(buf) = 9

(***************************************************************************)
(* C4.  Round trip: every data line of a complete output, split on tabs,   *)
(* yields exactly the 7 fields host, TRUE, path, FALSE, expiry, name,      *)
(* value of its record, whatever strings the record holds.                 *)
(***************************************************************************)
C4_RoundTrip ==
    ExitedOkWithOutput =>
        LET lines == DataLines(Written)
        IN  \A i \in 1..Len(lines) :
              i <= Len(cookies.vec) =>
                LET c == cookies.vec[i]
                IN  SplitOn(lines[i], TAB)
                      = <<c.host, StrTRUE, c.path, StrFALSE, FmtI64(c.expiry), c.name, c.value>>

(***************************************************************************)
(* C5.  A successful run with --output leaves a file that exists and whose *)
(* whole content is the bytes a successful run without --output wrote to   *)
(* standard output for the same hosts and store: the file is created when  *)
(* absent and truncated when present, nothing of its earlier content       *)
(* survives.                                                               *)
(***************************************************************************)
C5_FileEqualsStdout ==
    (ExitedOkWithOutput /\ opts.output.some) =>
        /\ file.exists
        /\ (captured.some => file.data = captured.data)

C5_Witness ==
    /\ ExitedOkWithOutput
    /\ opts.output.some
    /\ captured.some
    /\ file0 = OldFile
    /\ Len(cookies.vec) = 2

(***************************************************************************)
(* C6.  A successful run that reached the output stage wrote, on either    *)
(* destination: the four header lines, one empty line, one non-empty line  *)
(* per record, and nothing more (the output ends with the line feed of     *)
(* its last line).                                                         *)
(***************************************************************************)
C6_HeaderBlock ==
    ExitedOkWithOutput =>
        LET L == SplitOn(Written, LF)
            n == Len(cookies.vec)
        IN  /\ IsPrefix(COOKIE_FILE_HEADER \o <<LF>>, Written)
            /\ Len(L) = 4 + 1 + n + 1
            /\ L[1] = HeaderLine1
            /\ L[2] = HeaderLine2
            /\ L[3] = HeaderLine3
            /\ L[4] = HeaderLine4
            /\ L[5] = <<>>
            /\ \A i \in 1..n : L[5 + i] # <<>>
            /\ L[Len(L)] = <<>>

C6_Witness ==
    /\ ExitedOkWithOutput
    /\ Len(cookies.vec) = 0
    /\ opts.output.some
    /\ captured.some
    /\ Len(store) > 0

(***************************************************************************)
(* C7.  A failure before the output stage (no store found, store not       *)
(* opened, query not prepared or not executed, a row that does not decode) *)
(* leaves standard output empty and the --output file exactly as it was;   *)
(* and a matching row that does not decode, at any position, keeps the     *)
(* output stage from starting, so no partial list is written.              *)
(***************************************************************************)
C7_NoOutputOnEarlyFailure ==
    /\ err \in {"locate", "open", "prepare", "query", "rows"} =>
         "output" \notin done /\ stdout = <<>> /\ file = file0
    /\ (\E i \in 1..Len(MatchingRows) : MatchingRows[i].expiry.t # "integer") =>
         "output" \notin done /\ stdout = <<>> /\ file = file0

C7_Witness ==
    /\ pc = "exited"
    /\ err = "rows"
    /\ store = <<RowA, RowBad>>
    /\ opts.hosts = <<HostA>>
    /\ opts.output.some
    /\ file0 = OldFile

(***************************************************************************)
(* C8.  The process ends with code 0 exactly when run returned Ok and with *)
(* code 1 exactly when a stage failed; a message is on standard error      *)
(* exactly in the failure case; and once a stage has failed no later stage *)
(* of the pipeline has been entered.                                       *)
(***************************************************************************)
StageNo(st) == CHOOSE i \in 1..Len(Stages) : Stages[i] = st

ErrStage(e) == IF e = "rows" THEN "query" ELSE IF e \in {"create", "write"} THEN "output" ELSE e

C8_ExitCodeAndShortCircuit ==
    /\ pc = "exited" =>
         /\ exitCode \in {0, 1}
         /\ (exitCode = 0 <=> err = "")
         /\ (exitCode = 1 <=> err # "")
         /\ (stderr # <<>> <=> err # "")
    /\ pc # "exited" => exitCode = NotExited /\ stderr = <<>>
    /\ err # "" =>
         /\ pc \in {"ret_err", "exited"}
         /\ \A st \in done : StageNo(st) <= StageNo(ErrStage(err))
         /\ (err = "open" => ~conn /\ query = <<>>)
         /\ (err \in {"locate", "open", "prepare"} => cookies = ErrVec)

C8_Witness ==
    /\ pc = "exited"
    /\ exitCode = 1
    /\ err = "write"
    /\ stderr = <<ErrMsg("write")>>
    /\ idx = 1

(***************************************************************************)
(* C9.  get_db_path: without a data-dir, not found and no root walked;     *)
(* otherwise the first root's first entry named cookies.sqlite in          *)
(* contents-first depth-first order when it has one, and only the first    *)
(* root walked; otherwise, with a home directory, the second root is       *)
(* walked and its first such entry returned; not found exactly when no     *)
(* root yields a match.                                                    *)
(***************************************************************************)
\* The paths of the entries below a directory listing.
RECURSIVE PathsIn(_, _)
PathsIn(kids, p) ==
    UNION {{p \o <<i>>} \cup PathsIn(kids[i].kids, p \o <<i>>) : i \in 1..Len(kids)}

RECURSIVE NameAt(_, _)
NameAt(kids, p) ==
    IF Len(p) = 1 THEN kids[p[1]].name ELSE NameAt(kids[p[1]].kids, Tail(p))

\* a comes before b when a lies inside b, or a branches off to an earlier sibling.
ComesBefore(a, b) ==
    \/ Len(b) < Len(a) /\ SubSeq(a, 1, Len(b)) = b
    \/ \E k \in 1..Min(Len(a), Len(b)) :
         /\ SubSeq(a, 1, k - 1) = SubSeq(b, 1, k - 1)
         /\ a[k] < b[k]

Matches(root) ==
    IF ~root.exists THEN {}
    ELSE {p \in PathsIn(root.kids, <<>>) : NameAt(root.kids, p) = Target}

FirstMatch(root) ==
    CHOOSE p \in Matches(root) : \A q \in Matches(root) : q # p => ComesBefore(p, q)

C9_RootsInOrder ==
    pc = "loc_ret" =>
        /\ ~env.dataDir => dbPath = NonePath /\ searched = <<>>
        /\ (env.dataDir /\ Matches(env.root1) # {}) =>
             /\ dbPath = SomePath("data", FirstMatch(env.root1))
             /\ searched = <<"data">>
        /\ (env.dataDir /\ Matches(env.root1) = {} /\ ~env.homeDir) =>
             dbPath = NonePath /\ searched = <<"data">>
        /\ (env.dataDir /\ Matches(env.root1) = {} /\ env.homeDir) =>
             /\ searched = <<"data", "home">>
             /\ dbPath = IF Matches(env.root2) = {} THEN NonePath
                         ELSE SomePath("home", FirstMatch(env.root2))
        /\ (~dbPath.some <=>
              \/ ~env.dataDir
              \/ Matches(env.root1) = {} /\ (~env.homeDir \/ Matches(env.root2) = {}))

C9_Witness ==
    /\ pc = "loc_ret"
    /\ env.root1.exists
    /\ Matches(env.root1) = {}
    /\ Cardinality(Matches(env.root2)) >= 2
    /\ dbPath.some
    /\ dbPath.root = "home"
    /\ Len(dbPath.path) = 2

(***************************************************************************)
(* C10.  During and after the output stage what has been written is a      *)
(* prefix of the complete output (the header, then the records' lines in   *)
(* the order of the query result): before the loop handles record i the    *)
(* header and the lines of records 1..i-1 are written, a failed write      *)
(* leaves a prefix, and a successful run leaves the complete output.       *)
(***************************************************************************)
InOutput ==
    \/ pc \in {"save_header", "save_loop", "stdout_header", "stdout_loop"}
    \/ pc \in {"ret_ok", "ret_err", "exited"} /\ "output" \in done /\ err # "create"

C10_WrittenIsPrefixInOrder ==
    InOutput =>
        /\ IsPrefix(Written, FullOutput)
        /\ pc \in {"save_loop", "stdout_loop"} => Written = OutputUpTo(idx - 1)
        /\ err = "write" => IsPrefix(OutputUpTo(idx - 1), Written) \/ idx = 0
        /\ pc = "ret_ok" => Written = FullOutput

C10_Witness ==
    /\ pc = "ret_err"
    /\ err = "write"
    /\ idx = 2
    /\ Len(cookies.vec) = 2
    /\ cookies.vec[1] # cookies.vec[2]
    /\ Len(Written) > Len(OutputUpTo(1))

====
